---- MODULE Spec2Model ----
(***************************************************************************)
(* A model of the RENAC BLE -> MQTT bridge (renac_ha_bridge/__main__.py)   *)
(* and of the MQTT device abstraction (renac_ha_mqtt/mqtt_device.py).      *)
(*                                                                         *)
(* The module holds several specifications over one set of variables:      *)
(*   SpecAddr  address resolution (_split_addrs, _resolve_*_addrs)         *)
(*   SpecPub   one RenacMqttDevice: state publishing and command dispatch  *)
(*   SpecSup   the supervisor loops, their publishers and MQTT threads     *)
(*   SpecPoll  the timing of the inverter's connected phase                *)
(* A specification leaves the variables of the other parts at their idle   *)
(* values.                                                                 *)
(***************************************************************************)
EXTENDS Integers, Sequences, FiniteSets, TLC

VARIABLES
    env,            \* the address environment variables read at import time
    resolved,       \* main(): the address lists resolved so far
    tasks,          \* _run_all's local of that name: the tasks it created, by name
    run_all,        \* where _run_all is: not called, waiting for shutdown, or exited
    state,          \* RenacMqttDevice.state: entity key -> last value
    callbacks,      \* the keys of RenacMqttDevice._actuator_callbacks
    dispatcher,     \* the MQTT delivery thread: "running" or "crashed"
    call,           \* the publisher operation that ran last, with its arguments
    pubs,           \* the client.publish calls of that operation, in order
    invoked,        \* the actuator callbacks that operation invoked
    subs,           \* the client.subscribe calls of that operation, in order
    kind,           \* the supervisor task followed: "inverter" or "wallbox"
    pc,             \* the await the task is suspended in, "start" or "done"
    idx,            \* the actuator the registration or refresh is at
    pending,        \* the exception that passes through the finally block
    cancelReq,      \* task.cancel() was called and is not yet delivered
    link,           \* the transport's is_connected()
    insts,          \* the publishers (with MQTT thread) created for the address
    trail,          \* what the task did since its last connected-phase failure
    cleanup,        \* how the task's last await of disconnect() ended
    owed,           \* the connect() calls no disconnect() call has followed yet
    shutdown_event, \* the shared shutdown flag
    orch,           \* _run_all: "waiting", "gathering" or "done"
    POLL_INTERVAL_S,          \* the poll interval, in ticks
    ACTUATOR_POLL_INTERVAL_S, \* the actuator refresh interval, in ticks
    now,            \* time.monotonic(), in ticks
    last_actuator_poll, \* run_inverter_task's local of that name
    at,             \* where the timed connected phase is
    wake,           \* when the asyncio.sleep of the poll loop may return
    registeredAt,   \* when the actuator registration ended
    refreshAt,      \* when the last actuator refresh started
    prevRefreshAt,  \* when the refresh before it started
    _connected,     \* RenacMqttDevice._connected
    will,           \* the last-will the MQTT client holds
    session,        \* the broker connection of the publisher
    hpos,           \* where on_disconnect is: "none", "reconnect" or "sleep"
    delay,          \* on_disconnect's local of that name, in seconds
    attempts,       \* on_disconnect's local of that name
    calls,          \* the client.reconnect() calls of the last on_disconnect
    connectWills,   \* the last-wills the CONNECT packets sent so far carried
    fleet,          \* per task of the fleet: its position and its locals
    heap,           \* per task of the fleet: the newest publisher it created
    inverter_mqtt_by_addr,  \* the inverter registry
    wallbox_mqtt_by_addr,   \* the wallbox registry
    shared,         \* RenacMqttDevice.state as the two threads of a publisher see it
    lastPublished,  \* per key, the value last published to a state topic of the key
    mqtt_thread,    \* where the MQTT delivery thread is inside on_message
    loop_thread     \* where the event loop thread is inside a set_*_value call

addrVars == <<env, resolved, tasks, run_all>>

pubVars == <<state, callbacks, dispatcher, call, pubs, invoked, subs>>

taskVars == <<kind, pc, idx, pending, cancelReq, link, trail, cleanup, owed>>

supVars == <<taskVars, insts, shutdown_event, orch>>

timedVars == <<POLL_INTERVAL_S, ACTUATOR_POLL_INTERVAL_S, now, last_actuator_poll, at,
               wake, registeredAt, refreshAt, prevRefreshAt>>

connVars == <<_connected, will, session, hpos, delay, attempts, calls, connectWills>>

fleetVars == <<fleet, heap, inverter_mqtt_by_addr, wallbox_mqtt_by_addr>>

raceVars == <<shared, lastPublished, mqtt_thread, loop_thread>>

vars == <<addrVars, pubVars, supVars, timedVars, connVars, fleetVars, raceVars>>

notAddr == <<pubVars, supVars, timedVars, connVars, fleetVars, raceVars>>

notPub == <<addrVars, supVars, timedVars, connVars, fleetVars, raceVars>>

notSup == <<addrVars, pubVars, timedVars, connVars, fleetVars, raceVars>>

notTimed == <<addrVars, pubVars, supVars, connVars, fleetVars, raceVars>>

\* what neither the publisher nor its broker connection holds
notPubConn == <<addrVars, supVars, timedVars, fleetVars, raceVars>>

\* what neither the fleet holds nor the shutdown flag
notFleet == <<addrVars, pubVars, taskVars, insts, orch, timedVars, connVars, raceVars>>

notRace == <<addrVars, pubVars, supVars, timedVars, connVars, fleetVars>>

(***************************************************************************)
(* Python values.  None is NoneV; a string of the model is a sequence of   *)
(* one-character strings.                                                  *)
(***************************************************************************)
NoneV == [t |-> "none"]

Str(chars) == [t |-> "str", s |-> chars]

Range(s) == {s[i] : i \in DOMAIN s}

SeqsUpTo(S, n) == UNION {[1..k -> S] : k \in 0..n}

(***************************************************************************)
(* Address resolution                                                      *)
(***************************************************************************)
MaxListLen == 4
MaxLegacyLen == 1

AddrAlphabet == {"A", "B", ",", " "}

\* the spec's example: legacy "A", list "B, A, C"
ExampleLegacy == Str(<<"A">>)
ExampleList == <<"B", ",", " ", "A", ",", " ", "C">>

AddrLists == SeqsUpTo(AddrAlphabet, MaxListLen) \cup {ExampleList}
AddrLegacies == {NoneV} \cup {Str(s) : s \in SeqsUpTo(AddrAlphabet, MaxLegacyLen)}

\* os.getenv("RENAC_INVERTER_ADDRS", "") and its siblings: an unset list is ""
EnvDefault == [INVERTER_ADDR_LEGACY |-> NoneV, INVERTER_ADDRS |-> <<>>,
               WALLBOX_ADDR_LEGACY |-> NoneV, WALLBOX_ADDRS |-> <<>>]

\* bool(x) of None or of a string
Truthy(x) == x # NoneV /\ x # Str(<<>>)

\* str.replace(",", " ")
ReplaceCommas(value) ==
    [i \in 1..Len(value) |-> IF value[i] = "," THEN " " ELSE value[i]]

\* str.split() with no argument: the maximal runs of non-whitespace
RECURSIVE SplitWs(_, _, _)
SplitWs(s, cur, out) ==
    IF s = <<>>
    THEN IF cur = <<>> THEN out ELSE Append(out, cur)
    ELSE IF Head(s) = " "
         THEN SplitWs(Tail(s), <<>>, IF cur = <<>> THEN out ELSE Append(out, cur))
         ELSE SplitWs(Tail(s), Append(cur, Head(s)), out)

\* str.strip()
RECURSIVE LStrip(_)
LStrip(s) == IF s # <<>> /\ Head(s) = " " THEN LStrip(Tail(s)) ELSE s

RECURSIVE RStrip(_)
RStrip(s) ==
    IF s # <<>> /\ s[Len(s)] = " " THEN RStrip(SubSeq(s, 1, Len(s) - 1)) ELSE s

Strip(s) == RStrip(LStrip(s))

\* the loop of _split_addrs: keep the first occurrence of every address
RECURSIVE Dedupe(_, _, _)
Dedupe(raw, seen, out) ==
    IF raw = <<>> THEN out
    ELSE LET a == Head(raw) IN
         IF a # <<>> /\ a \notin seen
         THEN Dedupe(Tail(raw), seen \cup {a}, Append(out, a))
         ELSE Dedupe(Tail(raw), seen, out)

_split_addrs(value) ==
    IF value = <<>> THEN <<>>
    ELSE LET parts == SplitWs(ReplaceCommas(value), <<>>, <<>>)
             raw == [i \in 1..Len(parts) |-> Strip(parts[i])]
         IN Dedupe(raw, {}, <<>>)

\* [a for a in addrs if a != legacy]
RECURSIVE Without(_, _)
Without(addrs, legacy) ==
    IF addrs = <<>> THEN <<>>
    ELSE IF Head(addrs) # legacy
         THEN <<Head(addrs)>> \o Without(Tail(addrs), legacy)
         ELSE Without(Tail(addrs), legacy)

ResolveKeepingLegacy(legacy, list) ==
    LET addrs == _split_addrs(list) IN
    IF Truthy(legacy) THEN <<legacy.s>> \o addrs ELSE addrs

Resolve(legacy, list) ==
    LET addrs == _split_addrs(list) IN
    IF Truthy(legacy) THEN <<legacy.s>> \o Without(addrs, legacy.s) ELSE addrs

Unresolved == [t |-> "unresolved"]

ResolvedList(addrs) == [t |-> "list", l |-> addrs]

_resolve_inverter_addrs == ResolvedList(Resolve(env.INVERTER_ADDR_LEGACY, env.INVERTER_ADDRS))

_resolve_wallbox_addrs == ResolvedList(Resolve(env.WALLBOX_ADDR_LEGACY, env.WALLBOX_ADDRS))

\* the lists the inverter kind takes when both kinds are configured
BothKindsLists == {<<>>, <<"B">>, <<"A", ",", "B">>}

NotCalled == [t |-> "not called"]

Waiting == [t |-> "waiting"]

\* raise SystemExit(arg): the interpreter prints a string argument to stderr
\* and the process ends with status 1
SystemExit(arg) == [t |-> "SystemExit", message |-> arg, status |-> 1]

NoDevicesConfigured ==
    "No devices configured. Set RENAC_INVERTER_ADDR(S) and/or RENAC_WALLBOX_ADDR(S)."

\* asyncio.create_task(run_<kind>_task(addr), name=f"<kind>:{addr}"), per address
CreateTasks(kindName, addrs) == [i \in DOMAIN addrs |-> [kind |-> kindName, addr |-> addrs[i]]]

AlwaysSomeTask(created) == FALSE

\* if not tasks
NoTasks(created) == created = <<>>

\* the environment: one device kind is configured and the other left at its
\* default, or both are
AddrInit ==
    /\ env \in {[EnvDefault EXCEPT !.INVERTER_ADDR_LEGACY = l, !.INVERTER_ADDRS = s]
                    : l \in AddrLegacies, s \in AddrLists}
          \cup {[EnvDefault EXCEPT !.WALLBOX_ADDR_LEGACY = l, !.WALLBOX_ADDRS = s]
                    : l \in AddrLegacies, s \in AddrLists}
          \cup {[INVERTER_ADDR_LEGACY |-> l, INVERTER_ADDRS |-> s,
                 WALLBOX_ADDR_LEGACY |-> m, WALLBOX_ADDRS |-> <<>>]
                    : l \in AddrLegacies, m \in AddrLegacies, s \in BothKindsLists}
    /\ resolved = [inverter |-> Unresolved, wallbox |-> Unresolved]
    /\ tasks = <<>>
    /\ run_all = NotCalled

AddrIdle ==
    /\ env = EnvDefault
    /\ resolved = [inverter |-> Unresolved, wallbox |-> Unresolved]
    /\ tasks = <<>>
    /\ run_all = NotCalled

\* main(): inverter_addrs = _resolve_inverter_addrs()
MainResolveInverter ==
    /\ resolved.inverter = Unresolved
    /\ resolved' = [resolved EXCEPT !.inverter = _resolve_inverter_addrs]
    /\ UNCHANGED <<env, tasks, run_all, notAddr>>

\* main(): wallbox_addrs = _resolve_wallbox_addrs()
MainResolveWallbox ==
    /\ resolved.inverter # Unresolved
    /\ resolved.wallbox = Unresolved
    /\ resolved' = [resolved EXCEPT !.wallbox = _resolve_wallbox_addrs]
    /\ UNCHANGED <<env, tasks, run_all, notAddr>>

\* main(): loop.run_until_complete(_run_all(inverter_addrs, wallbox_addrs)), up
\* to the await of shutdown_event.wait() or the SystemExit
MainRunAll ==
    /\ resolved.inverter # Unresolved
    /\ resolved.wallbox # Unresolved
    /\ run_all = NotCalled
    /\ LET created == CreateTasks("inverter", resolved.inverter.l)
                          \o CreateTasks("wallbox", resolved.wallbox.l)
       IN /\ tasks' = created
          /\ run_all' = IF NoTasks(created) THEN SystemExit(NoDevicesConfigured)
                        ELSE Waiting
    /\ UNCHANGED <<env, resolved, notAddr>>

AddrNext == MainResolveInverter \/ MainResolveWallbox \/ MainRunAll

(***************************************************************************)
(* C10: address resolution returns a list without duplicates, the legacy   *)
(* address (when set, that is non-empty) at position 0, followed by the    *)
(* other addresses of the list in order of first occurrence; legacy "A"    *)
(* and list "B, A, C" give ["A", "B", "C"].                                *)
(***************************************************************************)
NoDuplicates(r) == \A i, j \in DOMAIN r : i # j => r[i] # r[j]

\* the addresses a list names, in the order written
ListedAddrs(list) == SplitWs(ReplaceCommas(list), <<>>, <<>>)

FirstIndex(s, a) == CHOOSE i \in DOMAIN s : s[i] = a /\ \A j \in 1..(i - 1) : s[j] # a

ResolvedAsClaimed(legacy, list, r) ==
    LET listed == ListedAddrs(list)
        rest == IF Truthy(legacy) THEN Tail(r) ELSE r
    IN /\ NoDuplicates(r)
       /\ Truthy(legacy) => r # <<>> /\ r[1] = legacy.s
       /\ Range(rest) = Range(listed) \ (IF Truthy(legacy) THEN {legacy.s} ELSE {})
       /\ \A i, j \in DOMAIN rest :
             i < j => FirstIndex(listed, rest[i]) < FirstIndex(listed, rest[j])
       /\ (legacy = ExampleLegacy /\ list = ExampleList)
             => r = << <<"A">>, <<"B">>, <<"C">> >>

C10_AddressResolution ==
    /\ resolved.inverter # Unresolved =>
          ResolvedAsClaimed(env.INVERTER_ADDR_LEGACY, env.INVERTER_ADDRS,
                            resolved.inverter.l)
    /\ resolved.wallbox # Unresolved =>
          ResolvedAsClaimed(env.WALLBOX_ADDR_LEGACY, env.WALLBOX_ADDRS,
                            resolved.wallbox.l)

\* the example of the claim has been resolved, with a duplicate of the legacy
\* address dropped from the list
C10_Witness ==
    /\ env.INVERTER_ADDR_LEGACY = ExampleLegacy
    /\ env.INVERTER_ADDRS = ExampleList
    /\ resolved.inverter = ResolvedList(<< <<"A">>, <<"B">>, <<"C">> >>)

(***************************************************************************)
(* The MQTT device: RenacMqttDevice                                        *)
(***************************************************************************)
MaxUpdates == 2     \* the most keys one set_sensor_value mapping carries

PyInt(n) == [t |-> "int", n |-> n]

\* bool is a subclass of int: True == 1 and False == 0
Bool(n) == [t |-> "bool", n |-> n]

PyTrue == Bool(1)

PyFalse == Bool(0)

IsNumber(v) == v.t \in {"int", "bool"}

\* Python's ==
PyEqIdentity(a, b) == a = b

PyEq(a, b) == IF IsNumber(a) /\ IsNumber(b) THEN a.n = b.n ELSE a = b

\* a cut of INVERTER_ENTITIES: its entity types, with one key each
Entities ==
    [number |-> {"min_soc"}, select |-> {"work_mode"}, sensor |-> {"load_power"}]

EntityTypes == <<"number", "select", "sensor">>

\* the keys whose state the model follows; "bogus" is a key no entity
\* definition holds
Keys == {"load_power", "min_soc", "bogus"}

\* the order in which a mapping of the model is iterated
KeyOrder == <<"load_power", "min_soc", "bogus">>

ActuatorKeys == (Entities.number \cup Entities.select) \cap Keys

\* the values the device loop reports: None, 1 and True (1 == True)
Values == {NoneV, PyInt(1), PyTrue}

DeviceId == "inverter_123"

\* get_entity_type: the first entity type that holds the key, else None
RECURSIVE EntityTypeFrom(_, _)
EntityTypeFrom(i, key) ==
    IF i > Len(EntityTypes) THEN "None"
    ELSE IF key \in Entities[EntityTypes[i]] THEN EntityTypes[i]
         ELSE EntityTypeFrom(i + 1, key)

get_entity_type(key) == EntityTypeFrom(1, key)

StateTopic(type, key) == <<"homeassistant", type, DeviceId, key, "state">>

SetTopic(type, key) == <<"homeassistant", type, DeviceId, key, "set">>

Msg(topic, payload, retain) == [topic |-> topic, payload |-> payload, retain |-> retain]

\* a key the state mapping does not hold maps to Absent
Absent == [t |-> "absent"]

EmptyState == [k \in Keys |-> Absent]

\* key in self.state
StateHas(st, key) == st[key] # Absent

\* self.state.get(key)
StateGet(st, key) == IF StateHas(st, key) THEN st[key] ELSE NoneV

\* self.state[key] = value
StatePut(st, key, value) == [st EXCEPT ![key] = value]

\* _set_state: store the value if it differs from the stored one; say whether it did
_set_state_identity(st, key, value) ==
    IF ~PyEqIdentity(StateGet(st, key), value)
    THEN [changed |-> TRUE, state |-> StatePut(st, key, value)]
    ELSE [changed |-> FALSE, state |-> st]

_set_state(st, key, value) ==
    IF ~PyEq(StateGet(st, key), value)
    THEN [changed |-> TRUE, state |-> StatePut(st, key, value)]
    ELSE [changed |-> FALSE, state |-> st]

\* the mappings set_sensor_value is given: at most MaxUpdates keys
Mappings ==
    UNION {[D -> Values] : D \in {D \in SUBSET Keys : Cardinality(D) <= MaxUpdates}}

\* the first loop of set_sensor_value over the items from position i on:
\* the state after it and the updates it collected, in order
RECURSIVE CollectUpdates(_, _, _, _)
CollectUpdates(i, mapping, st, updates) ==
    IF i > Len(KeyOrder) THEN [state |-> st, updates |-> updates]
    ELSE LET k == KeyOrder[i] IN
         IF k \in DOMAIN mapping
         THEN LET r == _set_state(st, k, mapping[k]) IN
              CollectUpdates(i + 1, mapping, r.state,
                  IF r.changed THEN Append(updates, <<k, mapping[k]>>) ELSE updates)
         ELSE CollectUpdates(i + 1, mapping, st, updates)

\* a second loop that leaves the retain argument to its default
SensorPublishesUnretained(updates) ==
    [i \in 1..Len(updates) |->
        Msg(StateTopic("sensor", updates[i][1]), updates[i][2], FALSE)]

\* the second loop: one retained publish per collected update
SensorPublishes(updates) ==
    [i \in 1..Len(updates) |->
        Msg(StateTopic("sensor", updates[i][1]), updates[i][2], TRUE)]

\* a return value that does not depend on what was published
TrueWhateverPublished(updates) == PyTrue

\* return bool(updates)
bool(updates) == IF updates # << >> THEN PyTrue ELSE PyFalse

NoCall == [op |-> "none"]

PubInit ==
    /\ state = EmptyState
    /\ callbacks = {}
    /\ dispatcher = "running"
    /\ call = NoCall
    /\ pubs = << >>
    /\ invoked = << >>
    /\ subs = << >>

\* set_sensor_value(key_or_dict, value): form "dict" is the mapping form, form
\* "key" the single-key form (a mapping of one key)
set_sensor_value(form, mapping) ==
    LET r == CollectUpdates(1, mapping, state, << >>) IN
    /\ state' = r.state
    /\ pubs' = SensorPublishes(r.updates)
    /\ call' = [op |-> "set_sensor_value", form |-> form, mapping |-> mapping,
                result |-> bool(r.updates)]
    /\ invoked' = << >>
    /\ subs' = << >>
    /\ UNCHANGED <<callbacks, dispatcher>>
    /\ UNCHANGED notPub

SetSensorValueDict == \E m \in Mappings : set_sensor_value("dict", m)

SetSensorValueKey ==
    \E k \in Keys, v \in Values : set_sensor_value("key", (k :> v))

\* set_actuator_callback(key, callback, value): the bridge registers the keys of
\* its number and select entities (run_inverter_task)
AnyInitialValue(value) == TRUE

\* if value is not None
HasInitialValue(value) == value # NoneV

set_actuator_callback(key, value) ==
    /\ callbacks' = callbacks \cup {key}
    /\ IF HasInitialValue(value)
       THEN /\ state' = _set_state(state, key, value).state
            /\ pubs' = <<Msg(StateTopic(get_entity_type(key), key), value, TRUE)>>
       ELSE /\ state' = state
            /\ pubs' = << >>
    /\ call' = [op |-> "set_actuator_callback", key |-> key, value |-> value]
    /\ invoked' = << >>
    /\ subs' = << >>
    /\ UNCHANGED dispatcher
    /\ UNCHANGED notPub

SetActuatorCallback ==
    \E k \in ActuatorKeys, v \in Values : set_actuator_callback(k, v)

\* a publish that does not look at what _set_state said
ActuatorPublishesAlways(changed, type, key, value) ==
    IF type # "None" THEN <<Msg(StateTopic(type, key), value, TRUE)>> ELSE << >>

\* set_actuator_value after _set_state: the publish, if the value changed and
\* an entity type holds the key
ActuatorPublishes(changed, type, key, value) ==
    IF changed /\ type # "None"
    THEN <<Msg(StateTopic(type, key), value, TRUE)>>
    ELSE << >>

\* set_actuator_value(key, value)
set_actuator_value(key, value) ==
    LET r == _set_state(state, key, value)
        sent == ActuatorPublishes(r.changed, get_entity_type(key), key, value)
    IN
    /\ state' = r.state
    /\ pubs' = sent
    /\ call' = [op |-> "set_actuator_value", key |-> key, value |-> value,
                result |-> IF sent # << >> THEN PyTrue ELSE PyFalse]
    /\ invoked' = << >>
    /\ subs' = << >>
    /\ UNCHANGED <<callbacks, dispatcher>>
    /\ UNCHANGED notPub

SetActuatorValue == \E k \in Keys, v \in Values : set_actuator_value(k, v)

(***************************************************************************)
(* The broker connection is acknowledged: on_connect                       *)
(***************************************************************************)
\* the CONNACK return codes: 0 accepts, the others refuse
ReturnCodes == {0, 1, 5}

\* the order in which the entity mappings are iterated
EntityKeyOrder == <<"load_power", "min_soc", "work_mode">>

KeysOf(type) == SelectSeq(EntityKeyOrder, LAMBDA k : k \in Entities[type])

AvailabilityTopic == <<"homeassistant", DeviceId, "availability">>

ConfigTopic(type, key) == <<"homeassistant", type, DeviceId, key, "config">>

\* json.dumps(config) of the entity
ConfigJson(type, key) == Str(<<"config", type, key>>)

ConfigsOf(type) ==
    [i \in 1..Len(KeysOf(type)) |->
        Msg(ConfigTopic(type, KeysOf(type)[i]), ConfigJson(type, KeysOf(type)[i]), TRUE)]

SetTopicsOf(type) ==
    [i \in 1..Len(KeysOf(type)) |-> SetTopic(type, KeysOf(type)[i])]

\* _register_sensors: the publishes
_register_sensors == ConfigsOf("sensor")

\* a registration that forgets the select entities
_register_numbers_only == [pubs |-> ConfigsOf("number"), subs |-> SetTopicsOf("number")]

\* _register_actuators: the publishes and the subscribes
_register_actuators ==
    [pubs |-> ConfigsOf("number") \o ConfigsOf("select"),
     subs |-> SetTopicsOf("number") \o SetTopicsOf("select")]

\* on_connect(client, userdata, flags, rc)
on_connect(rc) ==
    /\ IF rc = 0
       THEN /\ _connected' = TRUE
            /\ pubs' = <<Msg(AvailabilityTopic, Str(<<"online">>), TRUE)>>
                          \o _register_sensors \o _register_actuators.pubs
            /\ subs' = _register_actuators.subs
       ELSE /\ _connected' = _connected
            /\ pubs' = << >>
            /\ subs' = << >>
    /\ call' = [op |-> "on_connect", rc |-> rc]
    /\ invoked' = << >>
    /\ UNCHANGED <<state, callbacks, dispatcher>>

\* the CONNACK of a connect or reconnect arrives
BrokerAck ==
    /\ \E rc \in ReturnCodes : on_connect(rc)
    /\ UNCHANGED <<will, session, hpos, delay, attempts, calls, connectWills>>
    /\ UNCHANGED notPubConn

(***************************************************************************)
(* Command dispatch: on_message                                            *)
(***************************************************************************)
\* msg.payload: bytes, as the text they decode to, or bytes that are not UTF-8
Bytes(text) == [utf8 |-> TRUE, text |-> text]

BadBytes == [utf8 |-> FALSE, text |-> << >>]

Payloads == {Bytes(<<"1">>), Bytes(<<" ", "1", " ">>), Bytes(<<"t", "r", "u", "e">>),
             Bytes(<<"n", "u", "l", "l">>), Bytes(<<"o", "n">>), BadBytes}

Topics == {SetTopic(get_entity_type(k), k) : k \in Keys}
             \cup {StateTopic("sensor", "load_power"), <<"homeassistant", "set">>}

Digit == [c \in {"0", "1", "2", "3", "4", "5", "6", "7", "8", "9"} |->
            CASE c = "0" -> 0 [] c = "1" -> 1 [] c = "2" -> 2 [] c = "3" -> 3
              [] c = "4" -> 4 [] c = "5" -> 5 [] c = "6" -> 6 [] c = "7" -> 7
              [] c = "8" -> 8 [] c = "9" -> 9]

RECURSIVE DecimalFrom(_, _)
DecimalFrom(s, acc) ==
    IF s = << >> THEN acc ELSE DecimalFrom(Tail(s), 10 * acc + Digit[Head(s)])

JsonError == [t |-> "JSONDecodeError"]

\* json.loads of a stripped text: the literals and the unsigned integers; any
\* other text of the model is no JSON
JsonLoads(text) ==
    CASE text = <<"t", "r", "u", "e">> -> PyTrue
      [] text = <<"f", "a", "l", "s", "e">> -> PyFalse
      [] text = <<"n", "u", "l", "l">> -> NoneV
      [] text # << >> /\ (\A i \in DOMAIN text : text[i] \in DOMAIN Digit)
            /\ (Len(text) = 1 \/ text[1] # "0") -> PyInt(DecimalFrom(text, 0))
      [] OTHER -> JsonError

\* try: value = json.loads(payload)  except json.JSONDecodeError: value = payload
DecodeValue(text) ==
    IF JsonLoads(text) = JsonError THEN Str(text) ELSE JsonLoads(text)

\* what a callback gives back: a value, or an exception ("raise")
CallbackOutcomes == {"True", "None", "False", "Other", "raise"}

\* isinstance(result, bool) and result is False
IsFalsy(outcome) == outcome \in {"False", "None"}

IsNone(outcome) == outcome = "None"

IsExplicitFalse(outcome) == outcome = "False"

\* on_message for a message on `topic` with payload `payload`; what the callback
\* does, if it is called, is one of CallbackOutcomes
on_message(topic, payload) ==
    LET n == Len(topic)
        key == topic[n - 1]
        text == Strip(payload.text)
        value == DecodeValue(text)
        done(result) == [op |-> "on_message", topic |-> topic, payload |-> payload,
                         result |-> result, unchanged |-> FALSE]
        stored == _set_state(state, key, value)
        quiet == /\ pubs' = << >>
                 /\ invoked' = << >>
                 /\ UNCHANGED <<state, callbacks, dispatcher>>
    IN
    /\ dispatcher = "running"
    /\ subs' = << >>
    /\ UNCHANGED notPub
    /\ IF n >= 5 /\ topic[n] = "set"
       THEN IF ~payload.utf8
            THEN \* msg.payload.decode("utf-8") raises UnicodeDecodeError
                 /\ call' = done("UnicodeDecodeError")
                 /\ dispatcher' = "crashed"
                 /\ pubs' = << >>
                 /\ invoked' = << >>
                 /\ UNCHANGED <<state, callbacks>>
            ELSE IF key \in callbacks
                 THEN \E outcome \in CallbackOutcomes :
                      /\ invoked' = << <<key, value>> >>
                      /\ call' = [done(outcome) EXCEPT !.unchanged = ~stored.changed]
                      /\ IF outcome = "raise" \/ IsExplicitFalse(outcome)
                         THEN /\ pubs' = << >>
                              /\ UNCHANGED state
                         ELSE /\ state' = stored.state
                              /\ pubs' = <<Msg(StateTopic(get_entity_type(key), key),
                                               value, TRUE)>>
                      /\ UNCHANGED <<callbacks, dispatcher>>
                 ELSE /\ call' = done("no callback")
                      /\ quiet
       ELSE /\ call' = done("unhandled")
            /\ quiet

OnMessage == \E topic \in Topics, payload \in Payloads : on_message(topic, payload)

PubNext ==
    \/ SetSensorValueDict
    \/ SetSensorValueKey
    \/ SetActuatorCallback
    \/ SetActuatorValue
    \/ BrokerAck
    \/ OnMessage

(***************************************************************************)
(* The supervisor loops: run_inverter_task and run_wallbox_task, the       *)
(* publishers they create, the MQTT thread of every publisher, the setter  *)
(* coroutines its commands start on the event loop, and _run_all.          *)
(* One task is followed, of either kind.  Its pc names the await it is     *)
(* suspended in; an action resumes it and runs it up to its next await.    *)
(***************************************************************************)
MaxInstances == 2   \* the publishers of an address the model follows: the newest

\* a cut of the seven actuators run_inverter_task registers, in its order: the
\* first and the last
ActuatorOrder == <<"max_charge_current", "work_mode">>

NumActuators == Len(ActuatorOrder)

CmdKeys == Range(ActuatorOrder)

Kinds == {"inverter", "wallbox"}

\* RenacMqttDevice.__init__ and connect(): the CONNACK is awaited (ack), nothing
\* is published (log: the kinds of message published, in order of first
\* publish), no callback is registered (reg: the actuators registered, a prefix
\* of ActuatorOrder), the MQTT thread is not inside a callback (busy)
NewPublisher == [ack |-> "pending", log |-> << >>, reg |-> 0, busy |-> "none"]

Newest(s) ==
    IF Len(s) > MaxInstances THEN SubSeq(s, Len(s) - MaxInstances + 1, Len(s)) ELSE s

\* mqtt_dev, and the registry entry of the address: the newest publisher
Cur == Len(insts)

RECURSIVE LogAll(_, _)
LogAll(log, kinds) ==
    IF kinds = << >> THEN log
    ELSE LogAll(IF Head(kinds) \in Range(log) THEN log ELSE Append(log, Head(kinds)),
                Tail(kinds))

\* client.publish of a state value by the publisher
PublishState(inst, published) ==
    IF published THEN [inst EXCEPT !.log = LogAll(@, <<"state">>)] ELSE inst

KeyIndex(k) == CHOOSE i \in DOMAIN ActuatorOrder : ActuatorOrder[i] = k

SupInit ==
    /\ kind \in Kinds
    /\ pc = "start"
    /\ idx = 0
    /\ pending = "none"
    /\ cancelReq = FALSE
    /\ link = FALSE
    /\ insts = << >>
    /\ trail = << >>
    /\ shutdown_event = FALSE
    /\ orch = "waiting"
    /\ cleanup = "none"
    /\ owed = 0

SupIdle ==
    /\ kind = "none"
    /\ pc = "idle"
    /\ idx = 0
    /\ pending = "none"
    /\ cancelReq = FALSE
    /\ link = FALSE
    /\ insts = << >>
    /\ trail = << >>
    /\ shutdown_event = FALSE
    /\ orch = "idle"
    /\ cleanup = "none"
    /\ owed = 0

\* trail: the events after a failure in the connected phase
Note(ev) ==
    IF trail = << >> \/ trail[Len(trail)] = "connect" THEN trail ELSE Append(trail, ev)

\* the task runs on to the await p; going to "connect" is the call of
\* connect(), going to "disconnect" the call of disconnect()
Goto(p, i, t) ==
    /\ pc' = p
    /\ idx' = i
    /\ trail' = t
    /\ owed' = CASE p = "connect" -> owed + 1
                [] p = "disconnect" -> owed - 1
                [] OTHER -> owed

\* except Exception: log, then await asyncio.sleep(5), for a failure after
\* connect() succeeded
BackoffFirst == Goto("backoff", 0, <<"fail", "backoff">>)

ReleaseFirst == Goto("disconnect", 0, <<"fail", "disconnect">>)

Fails == BackoffFirst

\* while not shutdown_event.is_set() of the outer loop
OuterTop ==
    IF shutdown_event THEN Goto("done", 0, trail)
    ELSE Goto("connect", 0, Note("connect"))

\* a loop whose cleanup is skipped: it goes straight round to the next iteration
SkipFinally == OuterTop

\* leaving the try block without an exception: finally, await disconnect()
ToFinally == Goto("disconnect", 0, Note("disconnect"))

\* if not is_connected(): raise ConnectionError, else await asyncio.sleep(POLL)
CheckLink(up) == IF ~up THEN Fails ELSE Goto("sleep", 0, trail)

\* the top of the inner loop
InnerTop(up) ==
    IF shutdown_event THEN ToFinally
    ELSE IF kind = "inverter" THEN Goto("poll", 0, trail)
         ELSE CheckLink(up)

Resumes(p) == pc = p /\ ~cancelReq

\* the task starts to run
TaskStart ==
    /\ pc = "start"
    /\ IF cancelReq
       THEN pc' = "done" /\ pending' = "cancelled" /\ cancelReq' = FALSE
            /\ UNCHANGED <<idx, trail, owed>>
       ELSE OuterTop /\ UNCHANGED <<pending, cancelReq>>
    /\ UNCHANGED <<kind, cleanup, link, insts, shutdown_event, orch, notSup>>

\* await inverter.connect() / wallbox.connect() returns or raises
ConnectDone ==
    /\ Resumes("connect")
    /\ \E ok \in BOOLEAN :
         IF ok
         THEN /\ link' = TRUE
              /\ IF kind = "inverter" THEN Goto("get_info", 0, << >>)
                 ELSE IF shutdown_event THEN Goto("disconnect", 0, << >>)
                      ELSE Goto("sleep", 0, << >>)
         ELSE /\ link' = link
              /\ Goto("backoff", 0, << >>)
    /\ UNCHANGED <<kind, cleanup, pending, cancelReq, insts, shutdown_event, orch, notSup>>

\* await inverter.get_info() returns or raises; on return the publisher is
\* built and mqtt_dev.connect() is called, which may raise
GetInfoDone ==
    /\ Resumes("get_info")
    /\ \E ok \in BOOLEAN, mqttOk \in BOOLEAN :
         IF ok /\ mqttOk
         THEN /\ insts' = Newest(Append(insts, NewPublisher))
              /\ Goto("reg", 1, trail)
         ELSE /\ insts' = insts
              /\ Fails
    /\ UNCHANGED <<kind, cleanup, pending, cancelReq, link, shutdown_event, orch, notSup>>

\* await inverter.get_<actuator>() returns or raises; on return
\* mqtt_dev.set_actuator_callback(key, wrapper, value) registers the callback
\* and publishes the value unless it is None
RegDone ==
    /\ Resumes("reg")
    /\ \E ok \in BOOLEAN, hasValue \in BOOLEAN :
         IF ok
         THEN /\ insts' = [insts EXCEPT ![Cur] =
                              PublishState([@ EXCEPT !.reg = idx], hasValue)]
              /\ IF idx < NumActuators THEN Goto("reg", idx + 1, trail)
                 ELSE InnerTop(link)
         ELSE /\ insts' = insts
              /\ Fails
    /\ UNCHANGED <<kind, cleanup, pending, cancelReq, link, shutdown_event, orch, notSup>>

\* await inverter.get_power_and_energy_overview() returns or raises; on return
\* set_sensor_value publishes what changed, and the actuator refresh starts if due
PollDone ==
    /\ Resumes("poll")
    /\ \E ok \in BOOLEAN, changed \in BOOLEAN, due \in BOOLEAN :
         IF ok
         THEN /\ insts' = [insts EXCEPT ![Cur] = PublishState(@, changed)]
              /\ IF due THEN Goto("refresh", 1, trail) ELSE CheckLink(link)
         ELSE /\ insts' = insts
              /\ Fails
    /\ UNCHANGED <<kind, cleanup, pending, cancelReq, link, shutdown_event, orch, notSup>>

\* await inverter.get_<actuator>() of the refresh returns or raises; on return
\* set_actuator_value publishes the value if it changed
RefreshDone ==
    /\ Resumes("refresh")
    /\ \E ok \in BOOLEAN, changed \in BOOLEAN :
         IF ok
         THEN /\ insts' = [insts EXCEPT ![Cur] = PublishState(@, changed)]
              /\ IF idx < NumActuators THEN Goto("refresh", idx + 1, trail)
                 ELSE CheckLink(link)
         ELSE /\ insts' = insts
              /\ Fails
    /\ UNCHANGED <<kind, cleanup, pending, cancelReq, link, shutdown_event, orch, notSup>>

\* await asyncio.sleep(POLL_INTERVAL_S) returns
SleepDone ==
    /\ Resumes("sleep")
    /\ InnerTop(link)
    /\ UNCHANGED <<kind, cleanup, pending, cancelReq, link, insts, shutdown_event, orch, notSup>>

\* await asyncio.sleep(5) of the except block returns: the finally block runs
BackoffDone ==
    /\ Resumes("backoff")
    /\ ToFinally
    /\ UNCHANGED <<kind, cleanup, pending, cancelReq, link, insts, shutdown_event, orch, notSup>>

\* a finally block whose cleanup error escapes and ends the task
AfterCleanupUnguarded(ok) ==
    IF pending = "cancelled" \/ ~ok THEN Goto("done", 0, trail) ELSE OuterTop

\* after the finally block: except Exception: pass swallows a cleanup error; a
\* pending CancelledError is raised again, else the outer loop goes on
AfterCleanup(ok) ==
    IF pending = "cancelled" THEN Goto("done", 0, trail) ELSE OuterTop

\* await disconnect() of the finally block returns, or raises and is swallowed
DisconnectDone ==
    /\ Resumes("disconnect")
    /\ \E ok \in BOOLEAN :
         /\ link' = IF ok THEN FALSE ELSE link
         /\ cleanup' = IF ok THEN "returned" ELSE "swallowed"
         /\ AfterCleanup(ok)
    /\ UNCHANGED <<kind, pending, cancelReq, insts, shutdown_event, orch, notSup>>

\* the CancelledError of task.cancel() is raised in the await the task is in:
\* no except Exception catches it; the finally block runs unless the task is
\* already in it
Cancelled ==
    /\ cancelReq
    /\ pc \notin {"start", "done"}
    /\ cancelReq' = FALSE
    /\ pending' = "cancelled"
    /\ IF pc = "disconnect"
       THEN \* the CancelledError leaves await disconnect() and the finally block
            Goto("done", 0, trail) /\ cleanup' = "interrupted"
       ELSE ToFinally /\ cleanup' = cleanup
    /\ UNCHANGED <<kind, link, insts, shutdown_event, orch, notSup>>

\* the device goes away: is_connected() turns false
LinkDrop ==
    /\ link
    /\ link' = FALSE
    /\ UNCHANGED <<kind, cleanup, owed, pc, idx, pending, cancelReq, trail, insts, shutdown_event,
                   orch, notSup>>

\* the wallbox notification callback of make_wallbox_callback: the publisher is
\* built on the first telemetry (dev.connect() may raise, and then no publisher
\* is kept), then set_sensor_value publishes what changed
WallboxNotify ==
    /\ kind = "wallbox"
    /\ link
    /\ pc \notin {"start", "done"}
    /\ \E mqttOk \in BOOLEAN, changed \in BOOLEAN :
         IF insts = << >>
         THEN insts' = IF mqttOk THEN <<PublishState(NewPublisher, changed)>> ELSE insts
         ELSE insts' = [insts EXCEPT ![1] = PublishState(@, changed)]
    /\ UNCHANGED <<taskVars, shutdown_event, orch, notSup>>

\* on_connect in the MQTT thread of publisher i: with rc = 0 it publishes
\* "online" and the discovery configs and subscribes the set topics
OnConnect ==
    \E i \in DOMAIN insts, rc \in {0, 1} :
        /\ insts[i].ack = "pending"
        /\ insts' = [insts EXCEPT ![i] =
               IF rc = 0
               THEN [@ EXCEPT !.ack = "ok", !.log = LogAll(@, <<"online", "config">>)]
               ELSE [@ EXCEPT !.ack = "refused"]]
        /\ UNCHANGED <<taskVars, shutdown_event, orch, notSup>>

\* on_message in the MQTT thread of publisher i for a set message of key k: a
\* registered callback is wrap_async_callback's wrapper, which hands the setter
\* to the event loop (run_coroutine_threadsafe) and blocks in fut.result()
Deliver ==
    \E i \in DOMAIN insts, k \in CmdKeys :
        /\ kind = "inverter"
        /\ insts[i].ack = "ok"
        /\ insts[i].busy = "none"
        /\ KeyIndex(k) <= insts[i].reg
        /\ insts' = [insts EXCEPT ![i].busy = k]
        /\ UNCHANGED <<taskVars, shutdown_event, orch, notSup>>

\* wrapper: return fut.result(), or False if it raises
wrapper(outcome) == IF outcome = "raise" THEN "False" ELSE outcome

\* the setter coroutine of publisher i ends on the event loop; the wrapper
\* returns and on_message publishes the state unless the result is False
SetterDone ==
    \E i \in DOMAIN insts, outcome \in CallbackOutcomes :
        /\ insts[i].busy # "none"
        /\ orch # "done"
        /\ insts' = [insts EXCEPT ![i] =
               PublishState([@ EXCEPT !.busy = "none"],
                            ~IsExplicitFalse(wrapper(outcome)))]
        /\ UNCHANGED <<taskVars, shutdown_event, orch, notSup>>

\* _shutdown_handler
Signal ==
    /\ ~shutdown_event
    /\ orch = "waiting"
    /\ shutdown_event' = TRUE
    /\ UNCHANGED <<taskVars, insts, orch, notSup>>

\* _run_all: shutdown_event.wait() returned; finally: t.cancel() for every task
RunAllCancel ==
    /\ orch = "waiting"
    /\ shutdown_event
    /\ orch' = "gathering"
    /\ cancelReq' = (pc # "done")
    /\ UNCHANGED <<kind, cleanup, owed, pc, idx, pending, link, trail, insts, shutdown_event, notSup>>

\* _run_all: asyncio.gather returned
RunAllDone ==
    /\ orch = "gathering"
    /\ pc = "done"
    /\ orch' = "done"
    /\ UNCHANGED <<taskVars, insts, shutdown_event, notSup>>

TaskNext ==
    \/ TaskStart
    \/ ConnectDone
    \/ GetInfoDone
    \/ RegDone
    \/ PollDone
    \/ RefreshDone
    \/ SleepDone
    \/ BackoffDone
    \/ DisconnectDone
    \/ Cancelled

SupNext ==
    \/ TaskStart
    \/ ConnectDone
    \/ GetInfoDone
    \/ RegDone
    \/ PollDone
    \/ RefreshDone
    \/ SleepDone
    \/ BackoffDone
    \/ DisconnectDone
    \/ Cancelled
    \/ LinkDrop
    \/ WallboxNotify
    \/ OnConnect
    \/ Deliver
    \/ SetterDone
    \/ Signal
    \/ RunAllCancel
    \/ RunAllDone

(***************************************************************************)
(* The connected phase of run_inverter_task with time: the poll loop and   *)
(* its actuator refresh.  now is time.monotonic() in ticks; it advances    *)
(* while the task is suspended in an await.                                *)
(***************************************************************************)
MaxClock == 6

MaxPollInterval == 2

MaxActuatorInterval == 3

Never == -1

\* a comparison that finds the refresh due on every iteration
DueOnEveryPoll(t, last, interval) == t - last >= 0

\* if now - last_actuator_poll >= ACTUATOR_POLL_INTERVAL_S
Due(t, last, interval) == t - last >= interval

TimedInit ==
    /\ POLL_INTERVAL_S \in 0..MaxPollInterval
    /\ ACTUATOR_POLL_INTERVAL_S \in POLL_INTERVAL_S..MaxActuatorInterval
    /\ now = 0
    /\ last_actuator_poll = Never
    /\ at = "register"
    /\ wake = 0
    /\ registeredAt = Never
    /\ refreshAt = Never
    /\ prevRefreshAt = Never

TimedIdle ==
    /\ POLL_INTERVAL_S = 0
    /\ ACTUATOR_POLL_INTERVAL_S = 0
    /\ now = 0
    /\ last_actuator_poll = Never
    /\ at = "idle"
    /\ wake = 0
    /\ registeredAt = Never
    /\ refreshAt = Never
    /\ prevRefreshAt = Never

\* time passes while the task is suspended
Tick ==
    /\ at # "idle"
    /\ now < MaxClock
    /\ now' = now + 1
    /\ UNCHANGED <<POLL_INTERVAL_S, ACTUATOR_POLL_INTERVAL_S, last_actuator_poll, at,
                   wake, registeredAt, refreshAt, prevRefreshAt, notTimed>>

\* the last set_actuator_callback returns: last_actuator_poll = time.monotonic()
TimedRegistered ==
    /\ at = "register"
    /\ registeredAt' = now
    /\ last_actuator_poll' = now
    /\ at' = "poll"
    /\ UNCHANGED <<POLL_INTERVAL_S, ACTUATOR_POLL_INTERVAL_S, now, wake, refreshAt,
                   prevRefreshAt, notTimed>>

\* get_power_and_energy_overview returns and is published; the refresh starts
\* if it is due, else the task sleeps
TimedOverview ==
    /\ at = "poll"
    /\ IF Due(now, last_actuator_poll, ACTUATOR_POLL_INTERVAL_S)
       THEN /\ last_actuator_poll' = now
            /\ prevRefreshAt' = refreshAt
            /\ refreshAt' = now
            /\ at' = "refresh"
            /\ wake' = wake
       ELSE /\ at' = "sleep"
            /\ wake' = now + POLL_INTERVAL_S
            /\ UNCHANGED <<last_actuator_poll, prevRefreshAt, refreshAt>>
    /\ UNCHANGED <<POLL_INTERVAL_S, ACTUATOR_POLL_INTERVAL_S, now, registeredAt,
                   notTimed>>

\* the last getter of the refresh returns; the task sleeps
TimedRefreshed ==
    /\ at = "refresh"
    /\ at' = "sleep"
    /\ wake' = now + POLL_INTERVAL_S
    /\ UNCHANGED <<POLL_INTERVAL_S, ACTUATOR_POLL_INTERVAL_S, now, last_actuator_poll,
                   registeredAt, refreshAt, prevRefreshAt, notTimed>>

\* await asyncio.sleep(POLL_INTERVAL_S) returns, no earlier than it was asked to
TimedWake ==
    /\ at = "sleep"
    /\ now >= wake
    /\ at' = "poll"
    /\ UNCHANGED <<POLL_INTERVAL_S, ACTUATOR_POLL_INTERVAL_S, now, last_actuator_poll,
                   wake, registeredAt, refreshAt, prevRefreshAt, notTimed>>

TimedNext ==
    \/ Tick
    \/ TimedRegistered
    \/ TimedOverview
    \/ TimedRefreshed
    \/ TimedWake

(***************************************************************************)
(* The broker connection of one publisher: __init__, connect, on_connect   *)
(* and on_disconnect, with the MQTT client's own reconnect after           *)
(* on_disconnect gave up.                                                  *)
(***************************************************************************)
ReconnectAttempts == 10

MaxDelay == 60

NoWill == [topic |-> << >>, payload |-> NoneV, retain |-> FALSE]

\* a constructor that arms no last-will
WillUnarmed == NoWill

\* client.will_set(f"homeassistant/{device_id}/availability", "offline", retain=True)
WillSet == Msg(AvailabilityTopic, Str(<<"offline">>), TRUE)

\* a doubling that has no cap
DoubledUncapped(d) == d * 2

\* delay = min(delay * 2, 60)
Doubled(d) == IF d * 2 < MaxDelay THEN d * 2 ELSE MaxDelay

\* a loop test that lets one attempt too many through
AttemptsLeftInclusive(n) == n <= ReconnectAttempts

\* while ... and attempts < 10
AttemptsLeft(n) == n < ReconnectAttempts

\* RenacMqttDevice.__init__
ConnInit ==
    /\ _connected = FALSE
    /\ will = WillSet
    /\ session = "new"
    /\ hpos = "none"
    /\ delay = 0
    /\ attempts = 0
    /\ calls = 0
    /\ connectWills = {}

ConnIdle ==
    /\ _connected = FALSE
    /\ will = WillSet
    /\ session = "idle"
    /\ hpos = "none"
    /\ delay = 0
    /\ attempts = 0
    /\ calls = 0
    /\ connectWills = {}

connFrame == UNCHANGED <<pubVars, notPubConn>>

\* connect(): client.connect sends CONNECT, with the will, or raises
Connect ==
    /\ session = "new"
    /\ \E ok \in BOOLEAN :
         IF ok
         THEN session' = "awaiting" /\ connectWills' = connectWills \cup {will}
         ELSE session' = "failed" /\ connectWills' = connectWills
    /\ UNCHANGED <<_connected, will, hpos, delay, attempts, calls>>
    /\ connFrame

\* the CONNACK arrives in the MQTT thread: on_connect
ConnAck ==
    /\ session = "awaiting"
    /\ hpos = "none"
    /\ \E rc \in ReturnCodes :
         /\ on_connect(rc)
         /\ session' = IF rc = 0 THEN "up" ELSE "refused"
    /\ UNCHANGED <<will, hpos, delay, attempts, calls, connectWills>>
    /\ UNCHANGED notPubConn

\* the connection ends (the broker refused it, closed it, or the network
\* dropped): on_disconnect starts, up to its first client.reconnect()
on_disconnect ==
    /\ session \in {"awaiting", "up", "refused"}
    /\ hpos = "none"
    /\ _connected' = FALSE
    /\ delay' = 1
    /\ attempts' = 0
    /\ calls' = 0
    /\ session' = "lost"
    /\ hpos' = "reconnect"
    /\ UNCHANGED <<will, connectWills>>
    /\ connFrame

\* client.reconnect() returns (CONNECT sent, with the will) or raises
Reconnect ==
    /\ hpos = "reconnect"
    /\ calls' = calls + 1
    /\ \E ok \in BOOLEAN :
         IF ok
         THEN /\ _connected' = TRUE
              /\ session' = "awaiting"
              /\ hpos' = "none"
              /\ connectWills' = connectWills \cup {will}
         ELSE /\ hpos' = "sleep"
              /\ UNCHANGED <<_connected, session, connectWills>>
    /\ UNCHANGED <<will, delay, attempts>>
    /\ connFrame

\* time.sleep(delay) returns; the delay doubles, the attempt counts, and the
\* while test decides whether on_disconnect tries again or gives up
Slept ==
    /\ hpos = "sleep"
    /\ delay' = Doubled(delay)
    /\ attempts' = attempts + 1
    /\ IF ~_connected /\ AttemptsLeft(attempts + 1)
       THEN hpos' = "reconnect" /\ session' = session
       ELSE hpos' = "none" /\ session' = "gave up"
    /\ UNCHANGED <<_connected, will, calls, connectWills>>
    /\ connFrame

\* the MQTT client's network loop reconnects by its own policy
ClientReconnect ==
    /\ session = "gave up"
    /\ session' = "awaiting"
    /\ connectWills' = connectWills \cup {will}
    /\ UNCHANGED <<_connected, will, hpos, delay, attempts, calls>>
    /\ connFrame

ConnNext ==
    \/ Connect
    \/ ConnAck
    \/ on_disconnect
    \/ Reconnect
    \/ Slept
    \/ ClientReconnect

(***************************************************************************)
(* The fleet: the supervisor tasks of several addresses side by side, the  *)
(* publishers each creates and the two registries.  A task's pc names the  *)
(* await it is suspended in; awaits of the same kind (the seven getters of *)
(* the actuator refresh) are one position.  Of the publishers a task       *)
(* created the newest is followed: no task and no registry refers to an    *)
(* older one, whose state and callbacks stay as they were.                 *)
(***************************************************************************)
MaxMade == 2      \* the publishers one task creates

\* the overview and the telemetry a device reports
Readings == {1, 2}

\* _run_all's tasks for inverter "A" and wallboxes "A" and "B"
FleetTasks == Range(CreateTasks("inverter", <<"A">>) \o CreateTasks("wallbox", <<"A", "B">>))

FleetAddrs == {d.addr : d \in FleetTasks}

ActuatorsWithSensorKey ==
    <<"max_charge_current", "max_discharge_current", "min_soc", "min_soc_on_grid",
      "export_limit", "power_limit_percent", "load_power">>

\* the seven keys run_inverter_task registers, in its order
InverterActuators ==
    <<"max_charge_current", "max_discharge_current", "min_soc", "min_soc_on_grid",
      "export_limit", "power_limit_percent", "work_mode">>

\* INVERTER_ENTITIES and WALLBOX_ENTITIES: the keys of their number and select
\* definitions
NumberKeys(kindName) ==
    IF kindName = "inverter"
    THEN {"max_charge_current", "max_discharge_current", "min_soc", "min_soc_on_grid",
          "export_limit", "power_limit_percent"}
    ELSE {}

SelectKeys(kindName) == IF kindName = "inverter" THEN {"work_mode"} ELSE {}

\* no publisher: None
NoDev == [owner |-> [kind |-> "none", addr |-> "none"], n |-> 0]

\* no publisher created yet
NoPublisher == [made |-> 0, callbacks |-> {}, state |-> 0]

\* RenacMqttDevice.__init__: no state, no callback; made numbers the publishers
\* of the task
FreshPublisher(old) == [made |-> old.made + 1, callbacks |-> {}, state |-> 0]

\* the object dev refers to is the newest publisher of its task
Live(h, dev) == dev # NoDev /\ h[dev.owner].made = dev.n

EveryAddress(addr) == "A"

\* inverter_mqtt_by_addr[ble_addr], wallbox_mqtt_by_addr.get(ble_addr)
RegistryKey(addr) == addr

\* the locals of a task before it runs
TaskLocals(p) == [pc |-> p, idx |-> 0, link |-> FALSE, mqtt_dev |-> NoDev]

FleetInit ==
    /\ fleet = [d \in FleetTasks |-> TaskLocals("start")]
    /\ heap = [d \in FleetTasks |-> NoPublisher]
    /\ inverter_mqtt_by_addr = [a \in FleetAddrs |-> NoDev]
    /\ wallbox_mqtt_by_addr = [a \in FleetAddrs |-> NoDev]

FleetIdle ==
    /\ fleet = [d \in FleetTasks |-> TaskLocals("idle")]
    /\ heap = [d \in FleetTasks |-> NoPublisher]
    /\ inverter_mqtt_by_addr = [a \in FleetAddrs |-> NoDev]
    /\ wallbox_mqtt_by_addr = [a \in FleetAddrs |-> NoDev]

\* a step of the task of d that leaves publishers and registries alone
Moves(d, p, i) ==
    /\ fleet' = [fleet EXCEPT ![d].pc = p, ![d].idx = i]
    /\ UNCHANGED <<heap, inverter_mqtt_by_addr, wallbox_mqtt_by_addr>>

\* while not shutdown_event.is_set(), the outer loop
FleetOuterTop == IF shutdown_event THEN "done" ELSE "connect"

\* a method of the publisher dev refers to stores a value
Stores(h, dev, v) == IF Live(h, dev) THEN [h EXCEPT ![dev.owner].state = v] ELSE h

FleetStart(d) ==
    /\ fleet[d].pc = "start"
    /\ Moves(d, FleetOuterTop, 0)
    /\ UNCHANGED <<shutdown_event, notFleet>>

\* await connect() returns or raises
FleetConnectDone(d) ==
    /\ fleet[d].pc = "connect"
    /\ \/ /\ fleet' = [fleet EXCEPT ![d].link = TRUE,
                                   ![d].pc = IF d.kind = "inverter" THEN "get_info"
                                             ELSE IF shutdown_event THEN "disconnect"
                                             ELSE "sleep"]
          /\ UNCHANGED <<heap, inverter_mqtt_by_addr, wallbox_mqtt_by_addr>>
       \/ Moves(d, "backoff", 0)
    /\ UNCHANGED <<shutdown_event, notFleet>>

\* await inverter.get_info() returns: the new publisher, mqtt_dev.connect() and
\* the registry write, up to the first getter; or it raises
FleetGetInfoDone(d) ==
    /\ fleet[d].pc = "get_info"
    /\ \/ /\ heap[d].made < MaxMade
          /\ LET dev == [owner |-> d, n |-> heap[d].made + 1] IN
             /\ heap' = [heap EXCEPT ![d] = FreshPublisher(@)]
             /\ inverter_mqtt_by_addr' =
                   [inverter_mqtt_by_addr EXCEPT ![RegistryKey(d.addr)] = dev]
             /\ fleet' = [fleet EXCEPT ![d].mqtt_dev = dev, ![d].pc = "reg", ![d].idx = 1]
          /\ UNCHANGED wallbox_mqtt_by_addr
       \/ Moves(d, "backoff", 0)
    /\ UNCHANGED <<shutdown_event, notFleet>>

\* the getter of actuator idx returns: mqtt_dev.set_actuator_callback(key, ...),
\* up to the next getter or into the poll loop; or it raises
FleetRegDone(d) ==
    /\ fleet[d].pc = "reg"
    /\ \/ LET dev == fleet[d].mqtt_dev
              i == fleet[d].idx
              last == i = Len(InverterActuators)
          IN /\ heap' = IF Live(heap, dev)
                        THEN [heap EXCEPT ![dev.owner].callbacks =
                                              @ \cup {InverterActuators[i]}]
                        ELSE heap
             /\ fleet' = [fleet EXCEPT ![d].idx = IF last THEN 0 ELSE i + 1,
                                       ![d].pc = IF ~last THEN "reg"
                                                 ELSE IF shutdown_event THEN "disconnect"
                                                 ELSE "poll"]
             /\ UNCHANGED <<inverter_mqtt_by_addr, wallbox_mqtt_by_addr>>
       \/ Moves(d, "backoff", 0)
    /\ UNCHANGED <<shutdown_event, notFleet>>

\* the end of a poll loop body: is_connected() and the sleep
FleetCheckLink(d) == IF fleet[d].link THEN "sleep" ELSE "backoff"

\* await inverter.get_power_and_energy_overview() returns:
\* mqtt_dev.set_sensor_value(overview), then the refresh when it is due; or it
\* raises
FleetPollDone(d) ==
    /\ fleet[d].pc = "poll"
    /\ \/ \E v \in Readings, due \in BOOLEAN :
            /\ heap' = Stores(heap, fleet[d].mqtt_dev, v)
            /\ fleet' = [fleet EXCEPT ![d].pc = IF due THEN "refresh"
                                                ELSE FleetCheckLink(d)]
            /\ UNCHANGED <<inverter_mqtt_by_addr, wallbox_mqtt_by_addr>>
       \/ Moves(d, "backoff", 0)
    /\ UNCHANGED <<shutdown_event, notFleet>>

\* the getters of the refresh return: mqtt_dev.set_actuator_value(key, ...); or
\* one raises
FleetRefreshDone(d) ==
    /\ fleet[d].pc = "refresh"
    /\ \/ \E v \in Readings :
            /\ heap' = Stores(heap, fleet[d].mqtt_dev, v)
            /\ fleet' = [fleet EXCEPT ![d].pc = FleetCheckLink(d)]
            /\ UNCHANGED <<inverter_mqtt_by_addr, wallbox_mqtt_by_addr>>
       \/ Moves(d, "backoff", 0)
    /\ UNCHANGED <<shutdown_event, notFleet>>

\* await asyncio.sleep(POLL_INTERVAL_S) returns: the inner loop test, and for a
\* wallbox the is_connected() test and the next sleep
FleetSleepDone(d) ==
    /\ fleet[d].pc = "sleep"
    /\ Moves(d, IF shutdown_event THEN "disconnect"
                ELSE IF d.kind = "inverter" THEN "poll"
                ELSE FleetCheckLink(d), 0)
    /\ UNCHANGED <<shutdown_event, notFleet>>

\* await asyncio.sleep(5) returns: the finally block
FleetBackoffDone(d) ==
    /\ fleet[d].pc = "backoff"
    /\ Moves(d, "disconnect", 0)
    /\ UNCHANGED <<shutdown_event, notFleet>>

\* await disconnect() returns, or raises and is swallowed
FleetDisconnectDone(d) ==
    /\ fleet[d].pc = "disconnect"
    /\ \E released \in BOOLEAN :
         fleet' = [fleet EXCEPT ![d].link = IF released THEN FALSE ELSE @,
                                ![d].pc = FleetOuterTop]
    /\ UNCHANGED <<heap, inverter_mqtt_by_addr, wallbox_mqtt_by_addr>>
    /\ UNCHANGED <<shutdown_event, notFleet>>

\* _run_all's t.cancel() after the shutdown: CancelledError at the await the
\* task is suspended in, through the finally block
FleetCancelled(d) ==
    /\ shutdown_event
    /\ fleet[d].pc \in {"connect", "get_info", "reg", "poll", "refresh", "sleep",
                        "backoff", "disconnect"}
    /\ Moves(d, IF fleet[d].pc = "disconnect" THEN "done" ELSE "disconnect", 0)
    /\ UNCHANGED <<shutdown_event, notFleet>>

\* the device drops the transport connection
FleetLinkDrop(d) ==
    /\ fleet[d].link
    /\ fleet' = [fleet EXCEPT ![d].link = FALSE]
    /\ UNCHANGED <<heap, inverter_mqtt_by_addr, wallbox_mqtt_by_addr>>
    /\ UNCHANGED <<shutdown_event, notFleet>>

\* make_wallbox_callback(ble_addr)._callback(parsed): the publisher of the
\* address is looked up, created and entered on first telemetry, and the
\* telemetry is published through it
FleetWallboxNotify(d) ==
    /\ d.kind = "wallbox"
    /\ fleet[d].link
    /\ \E v \in Readings :
         LET found == wallbox_mqtt_by_addr[RegistryKey(d.addr)]
             dev == IF found = NoDev THEN [owner |-> d, n |-> heap[d].made + 1]
                    ELSE found
             made == IF found = NoDev THEN [heap EXCEPT ![d] = FreshPublisher(@)]
                     ELSE heap
         IN /\ found = NoDev => heap[d].made < MaxMade
            /\ wallbox_mqtt_by_addr' =
                  [wallbox_mqtt_by_addr EXCEPT ![RegistryKey(d.addr)] = dev]
            /\ heap' = Stores(made, dev, v)
    /\ UNCHANGED <<fleet, inverter_mqtt_by_addr>>
    /\ UNCHANGED <<shutdown_event, notFleet>>

\* _shutdown_handler
FleetSignal ==
    /\ ~shutdown_event
    /\ shutdown_event' = TRUE
    /\ UNCHANGED <<fleetVars, notFleet>>

FleetNext ==
    \/ \E d \in FleetTasks :
         \/ FleetStart(d)
         \/ FleetConnectDone(d)
         \/ FleetGetInfoDone(d)
         \/ FleetRegDone(d)
         \/ FleetPollDone(d)
         \/ FleetRefreshDone(d)
         \/ FleetSleepDone(d)
         \/ FleetBackoffDone(d)
         \/ FleetDisconnectDone(d)
         \/ FleetCancelled(d)
         \/ FleetLinkDrop(d)
         \/ FleetWallboxNotify(d)
    \/ FleetSignal

(***************************************************************************)
(* The two threads of one publisher: the MQTT delivery thread, which runs  *)
(* on_message, and the event loop thread, from which the device loop calls *)
(* set_sensor_value and set_actuator_value.  The publisher has no lock, so *)
(* a thread can be preempted between its write of self.state and its       *)
(* client.publish.  The callback of "min_soc" is registered.               *)
(***************************************************************************)
RaceValues == {PyInt(1), PyInt(2)}

Idle == [at |-> "idle"]

\* between self._set_state(key, value) and self.client.publish(topic, value)
AtPublish(key, value) == [at |-> "publish", key |-> key, value |-> value]

RaceInit ==
    /\ shared = EmptyState
    /\ lastPublished = EmptyState
    /\ mqtt_thread = Idle
    /\ loop_thread = Idle

RaceIdle ==
    /\ shared = EmptyState
    /\ lastPublished = EmptyState
    /\ mqtt_thread = [at |-> "none"]
    /\ loop_thread = [at |-> "none"]

\* on_message for the set topic of the registered key, up to and including
\* self._set_state(key, value); nothing is stored when the callback raises or
\* returns False
RaceOnMessage ==
    /\ mqtt_thread = Idle
    /\ \E value \in RaceValues, outcome \in CallbackOutcomes :
         IF outcome = "raise" \/ IsExplicitFalse(outcome)
         THEN UNCHANGED <<shared, mqtt_thread>>
         ELSE /\ shared' = _set_state(shared, "min_soc", value).state
              /\ mqtt_thread' = AtPublish("min_soc", value)
    /\ UNCHANGED <<lastPublished, loop_thread, notRace>>

\* on_message: self.client.publish(topic, value, retain=True)
RaceOnMessagePublish ==
    /\ mqtt_thread.at = "publish"
    /\ lastPublished' = StatePut(lastPublished, mqtt_thread.key, mqtt_thread.value)
    /\ mqtt_thread' = Idle
    /\ UNCHANGED <<shared, loop_thread, notRace>>

\* set_actuator_value(key, value), up to the publish: the value is stored, and
\* the call returns when it is unchanged or the key has no entity type
RaceSetActuatorValue ==
    /\ loop_thread = Idle
    /\ \E key \in {"min_soc", "bogus"}, value \in RaceValues :
         LET stored == _set_state(shared, key, value) IN
         /\ shared' = stored.state
         /\ loop_thread' = IF stored.changed /\ get_entity_type(key) # "None"
                           THEN AtPublish(key, value) ELSE Idle
    /\ UNCHANGED <<lastPublished, mqtt_thread, notRace>>

\* set_sensor_value(key, value), up to the publish
RaceSetSensorValue ==
    /\ loop_thread = Idle
    /\ \E value \in RaceValues :
         LET stored == _set_state(shared, "load_power", value) IN
         /\ shared' = stored.state
         /\ loop_thread' = IF stored.changed THEN AtPublish("load_power", value) ELSE Idle
    /\ UNCHANGED <<lastPublished, mqtt_thread, notRace>>

\* set_sensor_value / set_actuator_value: self.client.publish(topic, value,
\* retain=True), and the return
RaceLoopPublish ==
    /\ loop_thread.at = "publish"
    /\ lastPublished' = StatePut(lastPublished, loop_thread.key, loop_thread.value)
    /\ loop_thread' = Idle
    /\ UNCHANGED <<shared, mqtt_thread, notRace>>

RaceNext ==
    \/ RaceOnMessage
    \/ RaceOnMessagePublish
    \/ RaceSetActuatorValue
    \/ RaceSetSensorValue
    \/ RaceLoopPublish

InitAddr == AddrInit /\ PubInit /\ SupIdle /\ TimedIdle /\ ConnIdle /\ FleetIdle /\ RaceIdle

InitPub == AddrIdle /\ PubInit /\ SupIdle /\ TimedIdle /\ ConnIdle /\ FleetIdle /\ RaceIdle

InitSup == AddrIdle /\ PubInit /\ SupInit /\ TimedIdle /\ ConnIdle /\ FleetIdle /\ RaceIdle

InitPoll == AddrIdle /\ PubInit /\ SupIdle /\ TimedInit /\ ConnIdle /\ FleetIdle /\ RaceIdle

InitConn == AddrIdle /\ PubInit /\ SupIdle /\ TimedIdle /\ ConnInit /\ FleetIdle /\ RaceIdle

SpecAddr == InitAddr /\ [][AddrNext]_vars

SpecPub == InitPub /\ [][PubNext]_vars

SpecSup == InitSup /\ [][SupNext]_vars

SpecPoll == InitPoll /\ [][TimedNext]_vars

SpecConn == InitConn /\ [][ConnNext]_vars

InitFleet ==
    /\ AddrIdle /\ PubInit /\ TimedIdle /\ ConnIdle
    /\ SupIdle
    /\ FleetInit
    /\ RaceIdle

SpecFleet == InitFleet /\ [][FleetNext]_vars

InitRace ==
    /\ AddrIdle /\ PubInit /\ TimedIdle /\ ConnIdle
    /\ SupIdle /\ FleetIdle
    /\ RaceInit

SpecRace == InitRace /\ [][RaceNext]_vars

\* inside on_disconnect, client.reconnect() returns or raises and time.sleep
\* returns
SpecConnFair == SpecConn /\ WF_vars(Reconnect) /\ WF_vars(Slept)

\* the event loop runs every task and every setter coroutine it was handed,
\* and _run_all goes on when it can
SpecSupLive ==
    /\ InitSup /\ [][SupNext]_vars
    /\ WF_vars(TaskNext)
    /\ WF_vars(SetterDone)
    /\ WF_vars(RunAllCancel)
    /\ WF_vars(RunAllDone)

\* the event loop runs every task that is ready, and every await of the task
\* returns, raises or is cancelled
SpecSupFair == SpecSup /\ WF_vars(TaskNext)

(***************************************************************************)
(* Claims about the publisher and the dispatcher.  A step is recognised by *)
(* the operation it leaves in call; the unprimed variables are the state   *)
(* just before the call.                                                   *)
(***************************************************************************)
CountTo(msgs, topic) == Cardinality({i \in DOMAIN msgs : msgs[i].topic = topic})

IsSetTopic(topic) == Len(topic) >= 5 /\ topic[Len(topic)] = "set"

TopicKey(topic) == topic[Len(topic) - 1]

\* C1: a set_sensor_value call publishes to the sensor state topic of a key
\* exactly when the call carries the key with a value that differs, by value
\* equality, from the value stored just before the call (once, with that value);
\* a second call with the same values directly after the first publishes nothing.
C1_SensorDedup ==
    [][call'.op = "set_sensor_value" =>
        LET m == call'.mapping IN
        /\ \A k \in Keys :
              CountTo(pubs', StateTopic("sensor", k)) =
                 IF k \in DOMAIN m /\ ~PyEq(StateGet(state, k), m[k]) THEN 1 ELSE 0
        /\ \A i \in DOMAIN pubs' :
              \E k \in DOMAIN m : pubs'[i] = Msg(StateTopic("sensor", k), m[k], TRUE)
        /\ (call.op = "set_sensor_value" /\ call.mapping = m) => pubs' = << >>
    ]_vars

\* a mapping of two keys was given: one value differed and was published, the
\* other was equal by value to the stored one (1 and True) and was not
C1_Witness ==
    /\ call.op = "set_sensor_value"
    /\ Cardinality(DOMAIN call.mapping) = 2
    /\ Len(pubs) = 1
    /\ \E k \in DOMAIN call.mapping :
          /\ CountTo(pubs, StateTopic("sensor", k)) = 0
          /\ state[k] # call.mapping[k]
          /\ PyEq(state[k], call.mapping[k])

\* C6: a set message whose key has no registered callback publishes nothing,
\* invokes no callback, leaves the state mapping as it is and lets no exception
\* escape the dispatcher.
C6_UnregisteredKeyIgnored ==
    [][(/\ call'.op = "on_message"
        /\ IsSetTopic(call'.topic)
        /\ TopicKey(call'.topic) \notin callbacks)
       => /\ pubs' = << >>
          /\ invoked' = << >>
          /\ state' = state
          /\ dispatcher' = "running"
    ]_vars

\* C7: when the callback of a set message returns an explicit False nothing is
\* published, the state mapping is unchanged and the dispatcher keeps running.
C7_ExplicitFalse ==
    [][(call'.op = "on_message" /\ call'.result = "False")
       => /\ Len(invoked') = 1
          /\ pubs' = << >>
          /\ state' = state
          /\ callbacks' = callbacks
          /\ dispatcher' = "running"
    ]_vars

\* a registered callback was called, returned False, and a value that differs
\* from the stored one was not stored
C7_Witness ==
    /\ call.op = "on_message"
    /\ call.result = "False"
    /\ Len(invoked) = 1
    /\ ~PyEq(StateGet(state, invoked[1][1]), invoked[1][2])
    /\ dispatcher = "running"

\* C8: when the callback returns anything but an explicit False (True, None,
\* another value) the state of the key holds the commanded value afterwards and
\* that value is published once, retained, to the state topic of the key, also
\* when it equals the value stored before.
C8_SuccessPublishes ==
    [][(call'.op = "on_message" /\ call'.result \in {"True", "None", "Other"})
       => LET key == TopicKey(call'.topic)
              value == DecodeValue(Strip(call'.payload.text))
          IN /\ invoked' = << <<key, value>> >>
             /\ PyEq(StateGet(state', key), value)
             /\ \A k \in Keys \ {key} : state'[k] = state[k]
             /\ pubs' = <<Msg(StateTopic(get_entity_type(key), key), value, TRUE)>>
    ]_vars

\* the callback returned None for a command whose value was already stored, and
\* the value was published again
C8_Witness ==
    /\ call.op = "on_message"
    /\ call.result = "None"
    /\ call.unchanged
    /\ Len(pubs) = 1
    /\ pubs[1].payload = PyInt(1)
    /\ state["min_soc"] = PyInt(1)

(***************************************************************************)
(* C2 (as the code does it): after a failure in the connected phase the    *)
(* loop first waits the fixed backoff (cut short only by cancellation),    *)
(* then releases the transport (disconnect, cleanup errors ignored), then  *)
(* attempts connect again, and the task has not ended unless shutdown was  *)
(* signalled.                                                              *)
(***************************************************************************)
IsPrefix(s, t) == Len(s) <= Len(t) /\ s = SubSeq(t, 1, Len(s))

C2_BackoffThenRelease ==
    /\ IsPrefix(trail, <<"fail", "backoff", "disconnect", "connect">>)
    /\ (trail # << >> /\ pc = "done") => shutdown_event

C2_Witness ==
    /\ trail = <<"fail", "backoff", "disconnect", "connect">>
    /\ pc = "connect"
    /\ ~shutdown_event

\* C2 as stated: after a failure in the connected phase the loop releases the
\* transport, then waits the backoff, then attempts connect again
C2_ReleaseThenBackoff ==
    IsPrefix(trail, <<"fail", "disconnect", "backoff", "connect">>)

(***************************************************************************)
(* C3: the task ends only after shutdown was signalled or the task was     *)
(* cancelled, whatever fails, and while shutdown is not signalled every    *)
(* failure (the task in its except block) is followed by a connect attempt.*)
(***************************************************************************)
C3_NeverEndsOnError ==
    /\ [](pc = "done" => (shutdown_event \/ pending = "cancelled"))
    /\ (pc = "backoff") ~> (pc = "connect" \/ shutdown_event)

\* a cleanup error was swallowed (the link outlived disconnect) and the task is
\* connecting again
C3_Witness ==
    /\ pc = "connect"
    /\ link
    /\ trail # << >>
    /\ ~shutdown_event

(***************************************************************************)
(* C4: at most one setter call per key is in flight on a device, over all  *)
(* the publishers of the device.                                           *)
(***************************************************************************)
InFlight(k) == {i \in DOMAIN insts : insts[i].busy = k}

C4_OneSetterPerKey == \A k \in CmdKeys : Cardinality(InFlight(k)) <= 1

(***************************************************************************)
(* C5: a publisher publishes no state value before its broker connection   *)
(* succeeded and it published "online" and the discovery configs.          *)
(***************************************************************************)
Before(log, a, b) ==
    \E i, j \in DOMAIN log : i < j /\ log[i] = a /\ log[j] = b

C5_DiscoveryBeforeState ==
    \A i \in DOMAIN insts :
        "state" \in Range(insts[i].log) =>
            /\ insts[i].ack = "ok"
            /\ Before(insts[i].log, "online", "state")
            /\ Before(insts[i].log, "config", "state")

(***************************************************************************)
(* C9: within a connected phase two consecutive actuator refreshes are at  *)
(* least ACTUATOR_POLL_INTERVAL_S apart, and the first is at least that    *)
(* long after registration, for 0 <= POLL_INTERVAL_S <=                    *)
(* ACTUATOR_POLL_INTERVAL_S.                                               *)
(***************************************************************************)
C9_RefreshSpacing ==
    /\ prevRefreshAt # Never => refreshAt - prevRefreshAt >= ACTUATOR_POLL_INTERVAL_S
    /\ refreshAt # Never => refreshAt - registeredAt >= ACTUATOR_POLL_INTERVAL_S

C9_Witness ==
    /\ prevRefreshAt # Never
    /\ POLL_INTERVAL_S > 0
    /\ ACTUATOR_POLL_INTERVAL_S > POLL_INTERVAL_S

(***************************************************************************)
(* C11: when _run_all returns, shutdown is set, the task has finished, and *)
(* a task that went through connect has released its transport: its        *)
(* disconnect() returned or raised an error that was swallowed.            *)
(***************************************************************************)
C11_ReleasedBeforeReturn ==
    orch = "done" =>
        /\ shutdown_event
        /\ pc = "done"
        /\ cleanup \in {"none", "returned", "swallowed"}

(***************************************************************************)
(* C12: the last-will ("offline", retained, on the availability topic) is  *)
(* armed from construction on, every CONNECT packet of a connect or        *)
(* reconnect carries it, and "online" is published to the availability     *)
(* topic only by an on_connect with return code 0.                         *)
(***************************************************************************)
OfflineWill ==
    [topic |-> <<"homeassistant", DeviceId, "availability">>,
     payload |-> Str(<<"offline">>), retain |-> TRUE]

IsAvailability(msg) == msg.topic = <<"homeassistant", DeviceId, "availability">>

C12_WillArmed ==
    /\ will = OfflineWill
    /\ connectWills \subseteq {OfflineWill}
    /\ \A i \in DOMAIN pubs :
          IsAvailability(pubs[i]) =>
              /\ pubs[i].payload = Str(<<"online">>)
              /\ call.op = "on_connect"
              /\ call.rc = 0
              /\ connectWills # {}

\* on_disconnect reconnected, the broker accepted, and "online" was published
C12_Witness ==
    /\ session = "up"
    /\ calls > 0
    /\ connectWills = {OfflineWill}
    /\ \E i \in DOMAIN pubs : IsAvailability(pubs[i])

(***************************************************************************)
(* C13: every message an operation of the publisher publishes is retained. *)
(***************************************************************************)
C13_AllRetained == \A i \in DOMAIN pubs : pubs[i].retain = TRUE

C13_Witness ==
    /\ call.op = "set_sensor_value"
    /\ Len(pubs) = 2

(***************************************************************************)
(* C14: at most one publisher exists for an address at any time.           *)
(***************************************************************************)
C14_OnePublisherPerAddress == Len(insts) <= 1

(***************************************************************************)
(* C15: a dispatcher that entered the callback bridge leaves it again.     *)
(***************************************************************************)
Blocked(i) == i \in DOMAIN insts /\ insts[i].busy # "none"

C15_DispatchReturns ==
    [](\A i \in 1..MaxInstances : Blocked(i) => <>(~Blocked(i)))

(***************************************************************************)
(* C16: an on_connect with return code 0 publishes one discovery config    *)
(* per entity of every type (and "online") and subscribes the set topic of *)
(* every number and select entity; with another return code it publishes   *)
(* and subscribes nothing.                                                 *)
(***************************************************************************)
AllTypes == {"sensor", "number", "select"}

WritableTypes == {"number", "select"}

C16_DiscoveryPerConnection ==
    [][(session = "awaiting" /\ session' \in {"up", "refused"}) =>
        /\ call'.op = "on_connect"
        /\ (session' = "up") = (call'.rc = 0)
        /\ IF call'.rc = 0
           THEN /\ \A t \in AllTypes : \A k \in Entities[t] :
                       CountTo(pubs', <<"homeassistant", t, DeviceId, k, "config">>) = 1
                /\ Len(pubs') =
                       1 + Cardinality(Entities.sensor) + Cardinality(Entities.number)
                         + Cardinality(Entities.select)
                /\ Len(subs') =
                       Cardinality(Entities.number) + Cardinality(Entities.select)
                /\ \A t \in WritableTypes : \A k \in Entities[t] :
                       \E i \in DOMAIN subs' :
                           subs'[i] = <<"homeassistant", t, DeviceId, k, "set">>
           ELSE pubs' = << >> /\ subs' = << >>
    ]_vars

\* a connection was refused, on_disconnect reconnected, and the second
\* connection was accepted and announced
C16_Witness ==
    /\ call.op = "on_connect"
    /\ call.rc = 0
    /\ session = "up"
    /\ calls = 1
    /\ Len(subs) = 2

C18_RegisterSeeds ==
    [][call'.op = "set_actuator_callback" =>
        LET k == call'.key
            v == call'.value
        IN /\ callbacks' = callbacks \cup {k}
           /\ invoked' = << >>
           /\ IF v # NoneV
              THEN /\ PyEq(StateGet(state', k), v)
                   /\ \A o \in Keys \ {k} : state'[o] = state[o]
                   /\ pubs' = <<Msg(<<"homeassistant", get_entity_type(k), DeviceId,
                                      k, "state">>, v, TRUE)>>
              ELSE pubs' = << >> /\ state' = state
    ]_vars

\* a key was registered again with None while a value was stored for it
C18_Witness ==
    /\ call.op = "set_actuator_callback"
    /\ call.value = NoneV
    /\ call.key \in callbacks
    /\ StateHas(state, call.key)
    /\ pubs = << >>

(***************************************************************************)
(* C19 (as the code does it): set_sensor_value returns True when it        *)
(* published at least one key, that is when some value of the mapping      *)
(* differed from the stored one, and False when it published nothing.      *)
(***************************************************************************)
PublishedKeys(msgs) == {msgs[i].topic[4] : i \in DOMAIN msgs}

C19_ReturnsWhetherPublished ==
    [][call'.op = "set_sensor_value" =>
        LET m == call'.mapping
            differing == {k \in DOMAIN m : ~PyEq(StateGet(state, k), m[k])}
        IN /\ PublishedKeys(pubs') = differing
           /\ call'.result = IF differing # {} THEN PyTrue ELSE PyFalse
    ]_vars

C19_Witness ==
    /\ call.op = "set_sensor_value"
    /\ Len(pubs) = 2
    /\ call.result = PyTrue

\* C19 as stated: the result is the set of the keys published
C19_ReturnsPublishedKeys ==
    [][call'.op = "set_sensor_value" =>
        call'.result = [t |-> "set", elems |-> PublishedKeys(pubs')]
    ]_vars

(***************************************************************************)
(* C20 (as the code does it): on a broker disconnect on_disconnect itself  *)
(* calls client.reconnect() up to 10 times and sleeps after each failure a *)
(* delay that starts at 1 s and doubles up to 60 s; after the tenth        *)
(* failure it gives up.                                                    *)
(***************************************************************************)
C20_BoundedReconnect ==
    /\ calls <= 10
    /\ attempts <= 10
    /\ session = "lost" =>
          /\ ~_connected
          /\ delay = (IF 2 ^ attempts < 60 THEN 2 ^ attempts ELSE 60)
          /\ calls = attempts + (IF hpos = "sleep" THEN 1 ELSE 0)
    /\ session = "gave up" => attempts = 10 /\ calls = 10 /\ ~_connected

C20_Witness ==
    /\ session = "gave up"
    /\ delay = 60

\* C20 as stated: the bridge makes no reconnect attempt and no backoff wait of
\* its own
C20_NoBridgeReconnect == calls = 0 /\ hpos # "sleep"

(***************************************************************************)
(* C21: with no resolved inverter address and no resolved wallbox address  *)
(* _run_all exits at once with a status other than 0 and the message that  *)
(* no devices are configured, having created no task and never having      *)
(* waited for the shutdown signal; with at least one address it creates    *)
(* exactly one task per resolved address of each kind and waits.           *)
(***************************************************************************)
TasksFor(kindName, a) ==
    Cardinality({i \in DOMAIN tasks : tasks[i] = [kind |-> kindName, addr |-> a]})

C21_FailFast ==
    /\ [](run_all.t # "not called" =>
            LET inv == resolved.inverter.l
                wb == resolved.wallbox.l
            IN IF inv = <<>> /\ wb = <<>>
               THEN /\ run_all.t = "SystemExit"
                    /\ run_all.status # 0
                    /\ run_all.message = "No devices configured. Set RENAC_INVERTER_ADDR(S) and/or RENAC_WALLBOX_ADDR(S)."
                    /\ tasks = <<>>
               ELSE /\ run_all.t = "waiting"
                    /\ Len(tasks) = Len(inv) + Len(wb)
                    /\ \A a \in Range(inv) : TasksFor("inverter", a) = 1
                    /\ \A a \in Range(wb) : TasksFor("wallbox", a) = 1)
    /\ [][run_all'.t = "SystemExit" => run_all.t = "not called"]_vars

\* no address of either kind was resolved and _run_all has exited
C21_Witness ==
    /\ resolved.inverter = ResolvedList(<<>>)
    /\ resolved.wallbox = ResolvedList(<<>>)
    /\ run_all.t = "SystemExit"

(***************************************************************************)
(* C22: the supervisor loops of different devices are independent: a step  *)
(* of a loop or of a telemetry callback changes the registry entry, the    *)
(* publisher (state and actuator registrations), the locals and the        *)
(* transport connection of one device at most, and a step that changes     *)
(* them leaves the shutdown flag as it is.                                 *)
(***************************************************************************)
Devices == [kind : {"inverter", "wallbox"}, addr : {"A", "B"}]

\* what belongs to a device after a step (primed) and before it
DataAfter(d) ==
    <<IF d.kind = "inverter" THEN inverter_mqtt_by_addr'[d.addr]
                             ELSE wallbox_mqtt_by_addr'[d.addr],
      IF d \in DOMAIN fleet THEN <<fleet'[d], heap'[d]>> ELSE << >> >>

DataBefore(d) ==
    <<IF d.kind = "inverter" THEN inverter_mqtt_by_addr[d.addr]
                             ELSE wallbox_mqtt_by_addr[d.addr],
      IF d \in DOMAIN fleet THEN <<fleet[d], heap[d]>> ELSE << >> >>

C22_LoopsIndependent ==
    [][/\ \A a, b \in Devices :
            (a # b /\ DataAfter(a) # DataBefore(a)) => DataAfter(b) = DataBefore(b)
       /\ (\E a \in Devices : DataAfter(a) # DataBefore(a))
             => shutdown_event' = shutdown_event]_vars

\* the three devices are connected, each entered in its registry with its own
\* publisher, and the two wallbox publishers hold different telemetry
C22_Witness ==
    LET inv == [kind |-> "inverter", addr |-> "A"]
        wa == [kind |-> "wallbox", addr |-> "A"]
        wb == [kind |-> "wallbox", addr |-> "B"]
    IN /\ inverter_mqtt_by_addr["A"].owner = inv
       /\ wallbox_mqtt_by_addr["A"].owner = wa
       /\ wallbox_mqtt_by_addr["B"].owner = wb
       /\ heap[wa].state = 1
       /\ heap[wb].state = 2
       /\ heap[inv].state = 2
       /\ fleet[inv].link /\ ~fleet[wa].link /\ fleet[wb].link

(***************************************************************************)
(* C23: whenever no publishing operation of the publisher is part-way      *)
(* through, state[key] is the value last published to the key's state      *)
(* topic, for every key of the state mapping: under every interleaving of  *)
(* the command dispatcher with the set_sensor_value and set_actuator_value *)
(* calls of the device loop, and for keys outside the entity definitions.  *)
(***************************************************************************)
C23_StateIsLastPublished ==
    (mqtt_thread.at = "idle" /\ loop_thread.at = "idle") =>
        \A key \in DOMAIN shared :
            StateHas(shared, key) => lastPublished[key] = shared[key]

\* the same for the keys of the entity definitions alone
C23_KnownKeys ==
    (mqtt_thread.at = "idle" /\ loop_thread.at = "idle") =>
        \A key \in DOMAIN shared \ {"bogus"} :
            StateHas(shared, key) => lastPublished[key] = shared[key]

(***************************************************************************)
(* C24: every key with a registered actuator callback on a publisher is a  *)
(* key of the number or select definitions of that publisher's entities;   *)
(* the inverter supervisor registers the same seven keys, in the same      *)
(* order, on the publisher of every loop iteration, so that all seven are  *)
(* registered whenever the poll loop runs; a wallbox publisher never has   *)
(* an actuator registration.                                               *)
(***************************************************************************)
SameSeven ==
    <<"max_charge_current", "max_discharge_current", "min_soc", "min_soc_on_grid",
      "export_limit", "power_limit_percent", "work_mode">>

C24_RegistrationsAreActuators ==
    \A d \in DOMAIN fleet :
       /\ heap[d].callbacks \subseteq NumberKeys(d.kind) \cup SelectKeys(d.kind)
       /\ d.kind = "wallbox" => heap[d].callbacks = {}
       /\ fleet[d].pc = "reg" =>
             heap[d].callbacks = {SameSeven[i] : i \in 1..(fleet[d].idx - 1)}
       /\ fleet[d].pc \in {"poll", "refresh", "sleep"} /\ d.kind = "inverter" =>
             heap[d].callbacks = Range(SameSeven)

\* the second iteration of the inverter loop polls, its publisher holding the
\* seven registrations, and a wallbox publisher exists
C24_Witness ==
    LET inv == [kind |-> "inverter", addr |-> "A"]
        wa == [kind |-> "wallbox", addr |-> "A"]
    IN /\ heap[inv].made = 2
       /\ fleet[inv].pc = "poll"
       /\ Cardinality(heap[inv].callbacks) = 7
       /\ heap[wa].made = 1

(***************************************************************************)
(* C25: a set message for a registered key invokes the callback once, with *)
(* the decoded value of a payload that is JSON and with the stripped text  *)
(* of a payload that is not, and on success that value is stored and       *)
(* published.                                                              *)
(***************************************************************************)
\* the value the payloads of the model stand for
Commanded(payload) ==
    CASE payload.text = <<"1">> -> PyInt(1)
      [] payload.text = <<" ", "1", " ">> -> PyInt(1)
      [] payload.text = <<"t", "r", "u", "e">> -> PyTrue
      [] payload.text = <<"n", "u", "l", "l">> -> NoneV
      [] payload.text = <<"o", "n">> -> Str(<<"o", "n">>)
      [] OTHER -> Str(payload.text)

C25_RawFallback ==
    [][(/\ call'.op = "on_message"
        /\ IsSetTopic(call'.topic)
        /\ TopicKey(call'.topic) \in callbacks)
       => LET key == TopicKey(call'.topic)
              value == Commanded(call'.payload)
          IN /\ invoked' = << <<key, value>> >>
             /\ call'.result \in {"True", "None", "Other"} =>
                   /\ PyEq(StateGet(state', key), value)
                   /\ pubs' = <<Msg(StateTopic(get_entity_type(key), key), value, TRUE)>>
    ]_vars

(***************************************************************************)
(* C26: on_disconnect terminates; it calls client.reconnect() at most 10   *)
(* times, sleeps after a failure a delay that starts at 1 s, doubles and   *)
(* stays at most 60 s, stops at the first success, and returns with        *)
(* _connected true exactly when an attempt succeeded.                      *)
(***************************************************************************)
C26_DisconnectHandlerEnds ==
    /\ [](/\ calls <= 10
          /\ hpos = "sleep" =>
                /\ delay \in {1, 2, 4, 8, 16, 32, 60}
                /\ attempts < 10)
    /\ [][(hpos = "sleep" /\ hpos' # "sleep") =>
              (delay' = 2 * delay \/ delay' = 60) /\ delay' >= delay]_vars
    /\ [][(hpos = "reconnect" /\ hpos' = "none") =>
              _connected' /\ session' = "awaiting" /\ calls' <= 10]_vars
    /\ [][(hpos = "sleep" /\ hpos' = "none") =>
              ~_connected' /\ session' = "gave up" /\ calls' = 10]_vars
    /\ (hpos # "none") ~> (hpos = "none")

\* the third attempt succeeded and on_disconnect returned
C26_Witness ==
    /\ hpos = "none"
    /\ session = "awaiting"
    /\ calls = 3
    /\ delay = 4
    /\ _connected

(***************************************************************************)
(* C27: a setter coroutine runs only while the supervisor task of the      *)
(* device is in no transport operation and not in its backoff wait, and    *)
(* the transport is connected.                                             *)
(***************************************************************************)
\* a setter coroutine of some publisher ends in this step
SetterEnds ==
    /\ pc' = pc
    /\ Len(insts') = Len(insts)
    /\ \E i \in DOMAIN insts : insts[i].busy # "none" /\ insts'[i].busy = "none"

C27_SetterAlone == [][SetterEnds => (pc = "sleep" /\ link)]_vars

(***************************************************************************)
(* C28: connect and disconnect calls alternate: a connect() call is        *)
(* followed by exactly one disconnect() call before the next connect(),    *)
(* and after a disconnect() that raised the loop goes on as after one that *)
(* returned.                                                               *)
(***************************************************************************)
C28_ConnectDisconnectAlternate ==
    /\ [](owed \in {0, 1})
    /\ [](pc \in {"connect", "get_info", "reg", "poll", "refresh", "sleep", "backoff"}
             => owed = 1)
    /\ [](pc \in {"start", "disconnect"} => owed = 0)
    /\ [][(pc = "disconnect" /\ pc' # "disconnect" /\ cancelReq' = cancelReq) =>
             pc' = (IF pending = "cancelled" \/ shutdown_event THEN "done"
                    ELSE "connect")]_vars

\* a disconnect() raised, the error was swallowed, and the next connect() is
\* under way
C28_Witness ==
    /\ pc = "connect"
    /\ owed = 1
    /\ cleanup = "swallowed"

====
